---- MODULE Spec2Model ----
(***************************************************************************)
(* Model of the rubric editor's Edit/Audit controller and of its CSV       *)
(* ingestion.  The controller is modelled on both backends the client can  *)
(* talk to: Supabase (utils/supabaseApi.ts over the tables of the Supabase *)
(* schema) and the Node/PostgreSQL REST server (server/index.js over the   *)
(* PostgreSQL schema and its log_changes trigger).                         *)
(*                                                                         *)
(* Every await of the Supabase client is one round trip to the store, so   *)
(* updateRubric and revertChange are modelled one store request per step;  *)
(* administrative statements of other users (deleteStage, deleteRole) may  *)
(* run between two steps.  A REST request is one SQL statement, trigger    *)
(* included, and is one step.  The REST server serves no revert route, so  *)
(* revertChange is modelled on Supabase.                                   *)
(***************************************************************************)
EXTENDS Integers, Sequences, FiniteSets, TLC

VARIABLES
    backend,         \* isSupabaseConfigured: "supabase" or "rest"
    clients,         \* the clients that issue controller calls
    rubric_data,     \* table rubric_data / rubrics: id -> row
    change_history,  \* table change_history / change_log, in insertion order
    nextHistoryId,   \* BIGSERIAL of change_history.id
    calls,           \* per client: the controller call in flight
    source,          \* ingestion: which loader runs ("none" outside ingestion)
    fileIdx,         \* ingestion: index in config.files of the file being scanned
    headers,         \* ingestion: the column names of that file
    scanned,         \* ingestion: the rows of that file read so far, each cut
                     \* down to the columns a stage label is read from and
                     \* the sub-label column
                     \* (loadLaddersData: the whole rows)
    rowsRead,        \* ingestion: number of rows read, over all files
    currentStage,    \* ingestion: currentStage (loadRubricData), lastStage
                     \* (migrate), currentFocusArea (loadLaddersData)
    rubricData,      \* ingestion: the records pushed / the rows inserted so
                     \* far (loadLaddersData: data)
    texts,           \* diff: the argument of the call, one text per variant
    diffFn,          \* diff: the function called ("none" before the call)
    diffOut,         \* diff: the array the call returned
    panel,           \* HistoryPanel: its props and its history state
    slot,            \* score resolution: the row given and the value found
    app,             \* AppContext: rubricData in memory and the updateCell
                     \* call in progress
    keyed            \* composite keys: the rows given and what was built

auditVars == <<backend, clients, rubric_data, change_history, nextHistoryId, calls>>

ingestVars == <<source, fileIdx, headers, scanned, rowsRead, currentStage,
                rubricData>>

diffVars == <<texts, diffFn, diffOut>>

viewVars == <<panel, slot, app, keyed>>

vars == <<auditVars, ingestVars, diffVars, viewVars>>

----------------------------------------------------------------------------
(* Bounds of the model *)

\* number of audit entries ever inserted
MaxHistory == 3

\* number of rows one ingestion run reads, over all its files
MaxRows == 3

\* number of rows of a table composite keys are built from
MaxKeyedRows == 2

\* record references a caller may pass; no row has id 2
RubricIds == {1, 2}

Clients == {"c1", "c2"}

\* JavaScript undefined / null (an absent argument, a missing column, no row)
Undefined == "undefined"

\* cell texts; "" is the empty string
Values == {"", "a", "b"}

\* field names a caller may pass; "notes" is no column of the table
FieldNames == {"interview_stage", "score_1", "notes"}

\* the label a caller renames a stage to
StageNames == {"b"}

\* the values a caller may pass for a field
FieldValues(field) == IF field = "interview_stage" THEN StageNames ELSE Values

\* changedBy arguments: absent, or a user name
Actors == {Undefined, "alice"}

Columns == {"stage", "level", "competency", "score_1"}

Levels == {"L1"}

----------------------------------------------------------------------------
(* Pure helpers of the controller *)

\* JavaScript truthiness of a string-or-undefined value
Truthy(v) == v # Undefined /\ v # ""

\* String(v || '')
OrEmpty(v) == IF Truthy(v) THEN v ELSE ""

\* updateRubric's mapping of the API field name to the table column
DbField(field) ==
    IF field = "interview_stage" THEN "stage"
    ELSE IF field = "designer_level" THEN "level"
    ELSE field

\* row[col] of a fetched row
GetCol(row, col) == IF col \in DOMAIN row THEN row[col] ELSE Undefined

\* the REST server's white list of field names
allowedFields == {"score_1", "score_2", "score_3", "score_4",
                  "interview_stage", "competency"}

\* the rubrics table of the PostgreSQL schema names its columns as the API does
RestColumn(field) ==
    IF field = "interview_stage" THEN "stage"
    ELSE IF field = "designer_level" THEN "level"
    ELSE field

\* HistoryPanel's test for an entry written by a revert:
\* changed_by?.includes('(revert)'); of the model's writers of entries only
\* revertChange, as 'system (revert)', has such a name
isRevertEntry(entry) == entry.changed_by = "system (revert)"

NoEntry == [id |-> 0, rubric_id |-> 0, field |-> "", old_value |-> "",
            new_value |-> "", changed_by |-> Undefined]

HistoryEntry(hid, rid, f, old, new, by) ==
    [id |-> hid, rubric_id |-> rid, field |-> f, old_value |-> old,
     new_value |-> new, changed_by |-> by]

\* from('change_history').select('*').eq('id', id).single(); NoEntry when
\* there is no such row
RECURSIVE FindHistory(_, _)
FindHistory(h, hid) ==
    IF h = <<>> THEN NoEntry
    ELSE IF Head(h).id = hid THEN Head(h)
    ELSE FindHistory(Tail(h), hid)

\* ON DELETE CASCADE of change_history.rubric_id
RECURSIVE CascadeDelete(_, _)
CascadeDelete(h, kept) ==
    IF h = <<>> THEN <<>>
    ELSE IF Head(h).rubric_id \in kept
         THEN <<Head(h)>> \o CascadeDelete(Tail(h), kept)
         ELSE CascadeDelete(Tail(h), kept)

----------------------------------------------------------------------------
(* A controller call: its arguments, its locals and what it did so far *)

IdleCall ==
    [op |-> "none", pc |-> "idle", id |-> 0, field |-> "", value |-> "",
     changedBy |-> Undefined, historyId |-> 0, history |-> NoEntry,
     current |-> Undefined,   \* the value read for the history entry
     before |-> Undefined,    \* the stored value the write replaced
     writes |-> 0,            \* update statements sent to the store
     persisted |-> FALSE,     \* the update changed a row
     rejected |-> FALSE,      \* the store rejected the update
     auditFailed |-> FALSE,   \* the insert into change_history was rejected
     appended |-> <<>>,       \* entries this call inserted
     result |-> "none"]

Done(call, result) == [call EXCEPT !.pc = "done", !.result = result]

\* a new call may start while the history table has room for the entry of
\* every call in flight
CanBegin(c) ==
    /\ c \in clients
    /\ calls[c].pc = "idle"
    /\ nextHistoryId + Cardinality({d \in Clients : calls[d].pc # "idle"})
           <= MaxHistory

InitRows ==
    (1 :> [stage |-> "a", level |-> "L1", competency |-> "c1", score_1 |-> ""])

\* no ingestion runs
IngestIdle ==
    /\ source = "none"
    /\ fileIdx = 0
    /\ headers = <<>>
    /\ scanned = <<>>
    /\ rowsRead = 0
    /\ currentStage = <<>>
    /\ rubricData = <<>>

\* no diff is computed
DiffIdle ==
    /\ texts = <<>>
    /\ diffFn = "none"
    /\ diffOut = <<>>

\* the history panel is closed
\* filteredRecordId 0: the prop is not given
PanelClosed ==
    [isOpen |-> FALSE, filteredRecordId |-> 0, loaded |-> FALSE,
     history |-> <<>>]

\* no score is being resolved
SlotIdle == [fn |-> "none", keys |-> <<>>, row |-> <<>>, value |-> <<>>]

\* the application holds no data and edits nothing
AppIdle ==
    [useApi |-> TRUE, rubricData |-> <<>>, pc |-> "idle", id |-> 0,
     field |-> "", thrown |-> FALSE, before |-> <<>>]

\* no composite key is built
KeyedIdle ==
    [fn |-> "none", table |-> "none", rows |-> <<>>, copyFrom |-> Undefined,
     out |-> <<>>]

ViewIdle ==
    /\ panel = PanelClosed
    /\ slot = SlotIdle
    /\ app = AppIdle
    /\ keyed = KeyedIdle

\* the tables after the schema's seed, no call in flight
AuditIdle ==
    /\ clients = {"c1"}
    /\ rubric_data = InitRows
    /\ change_history = <<>>
    /\ nextHistoryId = 1
    /\ calls = [c \in Clients |-> IdleCall]

Init ==
    /\ backend \in {"supabase", "rest"}
    /\ AuditIdle
    /\ IngestIdle
    /\ DiffIdle
    /\ ViewIdle


----------------------------------------------------------------------------
(* supabaseApi.updateRubric *)

\* updateRubric without its test of the row it read: the call goes on to the
\* write with oldValue undefined
updateRubric_afterRead_unchecked(call) ==
    [call EXCEPT !.pc = "upd_write",
         !.current = IF call.id \in DOMAIN rubric_data
                     THEN GetCol(rubric_data[call.id], DbField(call.field))
                     ELSE Undefined]

\* if (!current) throw new Error('Rubric not found'); else oldValue is read
updateRubric_afterRead(call) ==
    IF call.id \notin DOMAIN rubric_data
    THEN Done(call, "NotFound")
    ELSE [call EXCEPT !.pc = "upd_write",
              !.current = GetCol(rubric_data[call.id], DbField(call.field))]

\* select('*').eq('id', id).single(), then the read of current[dbField]
updateRubric_read(c, id, field, value, changedBy) ==
    /\ backend = "supabase"
    /\ CanBegin(c)
    /\ calls' = [calls EXCEPT ![c] =
           updateRubric_afterRead(
               [IdleCall EXCEPT !.op = "updateRubric", !.id = id,
                    !.field = field, !.value = value, !.changedBy = changedBy])]
    /\ UNCHANGED <<backend, clients, rubric_data, change_history, nextHistoryId>>
    /\ UNCHANGED <<ingestVars, diffVars, viewVars>>

\* updateRubric without its test of the update's error
updateRubric_afterWrite_ignoringError(call, error) ==
    IF Truthy(call.changedBy) THEN [call EXCEPT !.pc = "upd_audit"]
    ELSE Done(call, "ok")

\* if (error) throw error; then if (changedBy) the history insert follows
updateRubric_afterWrite(call, error) ==
    IF error THEN Done(call, "Conflict")
    ELSE IF Truthy(call.changedBy) THEN [call EXCEPT !.pc = "upd_audit"]
    ELSE Done(call, "ok")

\* an update that leaves a cell alone that changed since the call read it:
\* the first write wins (C26)
updateRubric_write_firstWins(c) ==
    /\ calls[c].pc = "upd_write"
    /\ LET call == [calls[c] EXCEPT !.writes = @ + 1]
           col == DbField(call.field)
       IN IF call.id \in DOMAIN rubric_data /\ col \in Columns
          THEN /\ rubric_data' =
                     IF rubric_data[call.id][col] = call.current
                     THEN [rubric_data EXCEPT ![call.id][col] = call.value]
                     ELSE rubric_data
               /\ calls' = [calls EXCEPT ![c] =
                      updateRubric_afterWrite(
                          [call EXCEPT !.persisted = TRUE,
                               !.before = rubric_data[call.id][col]], FALSE)]
          ELSE /\ rubric_data' = rubric_data
               /\ calls' = [calls EXCEPT ![c] =
                      updateRubric_afterWrite(
                          [call EXCEPT !.rejected = TRUE], TRUE)]
    /\ UNCHANGED <<backend, clients, change_history, nextHistoryId>>
    /\ UNCHANGED <<ingestVars, diffVars, viewVars>>

\* update({[dbField]: value}).eq('id', id).select().single(): the store may
\* reject the write; no such column and no row left are errors too
updateRubric_write(c) ==
    /\ calls[c].pc = "upd_write"
    /\ LET call == [calls[c] EXCEPT !.writes = @ + 1]
           col == DbField(call.field)
       IN \E storeOk \in BOOLEAN :
            IF storeOk /\ call.id \in DOMAIN rubric_data /\ col \in Columns
            THEN /\ rubric_data' = [rubric_data EXCEPT ![call.id][col] = call.value]
                 /\ calls' = [calls EXCEPT ![c] =
                        updateRubric_afterWrite(
                            [call EXCEPT !.persisted = TRUE,
                                 !.before = rubric_data[call.id][col]], FALSE)]
            ELSE /\ rubric_data' = rubric_data
                 /\ calls' = [calls EXCEPT ![c] =
                        updateRubric_afterWrite(
                            [call EXCEPT !.rejected = TRUE], TRUE)]
    /\ UNCHANGED <<backend, clients, change_history, nextHistoryId>>
    /\ UNCHANGED <<ingestVars, diffVars, viewVars>>

\* the entry updateRubric inserts
updateRubric_entry(call, hid) ==
    HistoryEntry(hid, call.id, DbField(call.field), OrEmpty(call.current),
                 call.value, call.changedBy)

\* the result of the history insert is not looked at: the row is returned
updateRubric_afterAudit(call, error) ==
    Done([call EXCEPT !.auditFailed = error], "ok")

\* from('change_history').insert(...): the store may reject the insert, and
\* the foreign key rejects it when the rubric row is gone
updateRubric_audit(c) ==
    /\ calls[c].pc = "upd_audit"
    /\ LET call == calls[c]
           entry == updateRubric_entry(call, nextHistoryId)
       IN \E storeOk \in BOOLEAN :
            IF storeOk /\ call.id \in DOMAIN rubric_data
            THEN /\ change_history' = Append(change_history, entry)
                 /\ nextHistoryId' = nextHistoryId + 1
                 /\ calls' = [calls EXCEPT ![c] =
                        updateRubric_afterAudit([call EXCEPT !.appended = Append(@, entry)],
                                   FALSE)]
            ELSE /\ UNCHANGED <<change_history, nextHistoryId>>
                 /\ calls' = [calls EXCEPT ![c] = updateRubric_afterAudit(call, TRUE)]
    /\ UNCHANGED <<backend, clients, rubric_data>>
    /\ UNCHANGED <<ingestVars, diffVars, viewVars>>

----------------------------------------------------------------------------
(* supabaseApi.revertChange *)

\* if (!history) throw new Error('History entry not found')
revertChange_afterReadHistory(call, history) ==
    IF history = NoEntry
    THEN Done(call, "NotFound")
    ELSE [call EXCEPT !.pc = "rev_read", !.history = history,
              !.id = history.rubric_id, !.field = history.field]

\* from('change_history').select('*').eq('id', historyId).single()
revertChange_readHistory(c, historyId) ==
    /\ backend = "supabase"
    /\ CanBegin(c)
    /\ calls' = [calls EXCEPT ![c] =
           revertChange_afterReadHistory(
               [IdleCall EXCEPT !.op = "revertChange", !.historyId = historyId],
               FindHistory(change_history, historyId))]
    /\ UNCHANGED <<backend, clients, rubric_data, change_history, nextHistoryId>>
    /\ UNCHANGED <<ingestVars, diffVars, viewVars>>

\* revertChange without its test of the row it read
revertChange_afterReadRubric_unchecked(call) ==
    [call EXCEPT !.pc = "rev_write",
         !.current = IF call.id \in DOMAIN rubric_data
                     THEN GetCol(rubric_data[call.id], call.field)
                     ELSE Undefined]

\* if (!rubric) throw new Error('Rubric not found'); else currentValue is read
revertChange_afterReadRubric(call) ==
    IF call.id \notin DOMAIN rubric_data
    THEN Done(call, "NotFound")
    ELSE [call EXCEPT !.pc = "rev_write",
              !.current = GetCol(rubric_data[call.id], call.field)]

\* from('rubric_data').select('*').eq('id', history.rubric_id).single()
revertChange_readRubric(c) ==
    /\ calls[c].pc = "rev_read"
    /\ calls' = [calls EXCEPT ![c] = revertChange_afterReadRubric(calls[c])]
    /\ UNCHANGED <<backend, clients, rubric_data, change_history, nextHistoryId>>
    /\ UNCHANGED <<ingestVars, diffVars, viewVars>>

\* the value revertChange writes back
revertChange_value(history) == history.old_value

\* if (error) throw error
revertChange_afterWrite(call, error) ==
    IF error THEN Done(call, "Conflict")
    ELSE [call EXCEPT !.pc = "rev_audit"]

\* update({[history.field]: history.old_value}).eq('id', history.rubric_id):
\* the store may reject the write; an update that matches no row is no error
revertChange_write(c) ==
    /\ calls[c].pc = "rev_write"
    /\ LET call == [calls[c] EXCEPT !.writes = @ + 1]
           col == call.field
       IN \E storeOk \in BOOLEAN :
            IF storeOk /\ col \in Columns
            THEN IF call.id \in DOMAIN rubric_data
                 THEN /\ rubric_data' = [rubric_data EXCEPT ![call.id][col] =
                                            revertChange_value(call.history)]
                      /\ calls' = [calls EXCEPT ![c] =
                             revertChange_afterWrite(
                                 [call EXCEPT !.persisted = TRUE,
                                      !.before = rubric_data[call.id][col]],
                                 FALSE)]
                 ELSE /\ rubric_data' = rubric_data
                      /\ calls' = [calls EXCEPT ![c] =
                             revertChange_afterWrite(call, FALSE)]
            ELSE /\ rubric_data' = rubric_data
                 /\ calls' = [calls EXCEPT ![c] =
                        revertChange_afterWrite(
                            [call EXCEPT !.rejected = TRUE], TRUE)]
    /\ UNCHANGED <<backend, clients, change_history, nextHistoryId>>
    /\ UNCHANGED <<ingestVars, diffVars, viewVars>>

\* a revert entry whose old_value is copied from the reverted entry's
\* new_value instead of the value read from the row
revertChange_entry_fromHistory(call, hid) ==
    HistoryEntry(hid, call.id, call.field, OrEmpty(call.history.new_value),
                 OrEmpty(call.history.old_value), "system (revert)")

\* the entry revertChange inserts
revertChange_entry(call, hid) ==
    HistoryEntry(hid, call.id, call.field, OrEmpty(call.current),
                 OrEmpty(call.history.old_value), "system (revert)")

\* the result of the history insert is not looked at: success is returned
revertChange_afterAudit(call, error) ==
    Done([call EXCEPT !.auditFailed = error], "ok")

\* from('change_history').insert(...): the store may reject the insert, and
\* the foreign key rejects it when the rubric row is gone
revertChange_audit(c) ==
    /\ calls[c].pc = "rev_audit"
    /\ LET call == calls[c]
           entry == revertChange_entry(call, nextHistoryId)
       IN \E storeOk \in BOOLEAN :
            IF storeOk /\ call.id \in DOMAIN rubric_data
            THEN /\ change_history' = Append(change_history, entry)
                 /\ nextHistoryId' = nextHistoryId + 1
                 /\ calls' = [calls EXCEPT ![c] =
                        revertChange_afterAudit([call EXCEPT !.appended = Append(@, entry)],
                                   FALSE)]
            ELSE /\ UNCHANGED <<change_history, nextHistoryId>>
                 /\ calls' = [calls EXCEPT ![c] = revertChange_afterAudit(call, TRUE)]
    /\ UNCHANGED <<backend, clients, rubric_data>>
    /\ UNCHANGED <<ingestVars, diffVars, viewVars>>

----------------------------------------------------------------------------
(* The REST backend: api.updateRubric, PUT /api/rubrics/:id and the        *)
(* log_changes trigger of the rubrics table                                *)

\* log_changes, AFTER UPDATE ... FOR EACH ROW: one change_log row per column
\* whose value IS DISTINCT FROM the old one (the statement sets one column)
log_changes(log, hid, id, col_name, old_val, new_val) ==
    IF old_val # new_val
    THEN Append(log, HistoryEntry(hid, id, col_name, old_val, new_val, Undefined))
    ELSE log

\* the handler's answer: 400 for a field off the white list, 500 when the
\* statement throws, 404 when it returned no row, else the row
putRubric_status(field, threw, rowCount) ==
    IF field \notin allowedFields THEN "Invalid"
    ELSE IF threw THEN "Conflict"
    ELSE IF rowCount = 0 THEN "NotFound"
    ELSE "ok"

\* UPDATE rubrics SET field = $1 WHERE id = $2 RETURNING *, in its handler;
\* the store may reject the write of a row it matched
putRubric(c, id, field, value) ==
    /\ backend = "rest"
    /\ CanBegin(c)
    /\ LET call == [IdleCall EXCEPT !.op = "updateRubric", !.id = id,
                       !.field = field, !.value = value]
           col == RestColumn(field)
       IN IF field \notin allowedFields
          THEN /\ calls' = [calls EXCEPT ![c] =
                      Done(call, putRubric_status(field, FALSE, 0))]
               /\ UNCHANGED <<rubric_data, change_history, nextHistoryId>>
          ELSE IF id \notin DOMAIN rubric_data
          THEN /\ calls' = [calls EXCEPT ![c] =
                      Done([call EXCEPT !.writes = @ + 1],
                           putRubric_status(field, FALSE, 0))]
               /\ UNCHANGED <<rubric_data, change_history, nextHistoryId>>
          ELSE \E storeOk \in BOOLEAN :
                 IF ~storeOk
                 THEN /\ calls' = [calls EXCEPT ![c] =
                             Done([call EXCEPT !.writes = @ + 1,
                                       !.rejected = TRUE],
                                  putRubric_status(field, TRUE, 0))]
                      /\ UNCHANGED <<rubric_data, change_history, nextHistoryId>>
                 ELSE LET old == rubric_data[id][col]
                          log == log_changes(change_history, nextHistoryId, id,
                                             field, old, value)
                      IN /\ rubric_data' = [rubric_data EXCEPT ![id][col] = value]
                         /\ change_history' = log
                         /\ nextHistoryId' = nextHistoryId +
                                (Len(log) - Len(change_history))
                         /\ calls' = [calls EXCEPT ![c] =
                              Done([call EXCEPT !.writes = @ + 1,
                                  !.persisted = TRUE, !.current = old,
                                  !.before = old,
                                  !.appended = SubSeq(log, Len(change_history) + 1,
                                                      Len(log))],
                                   putRubric_status(field, FALSE, 1))]
    /\ UNCHANGED <<backend, clients>>
    /\ UNCHANGED <<ingestVars, diffVars, viewVars>>

----------------------------------------------------------------------------
(* Administrative statements on rubric_data (Supabase) *)

\* the rows a delete statement leaves
Remaining(gone) == [id \in DOMAIN rubric_data \ gone |-> rubric_data[id]]

\* delete().eq('discipline', discipline).eq('stage', stage); a statement the
\* store rejects throws and changes nothing
deleteStage(stage) ==
    /\ backend = "supabase"
    /\ LET gone == {id \in DOMAIN rubric_data : rubric_data[id].stage = stage}
       IN /\ gone # {}
          /\ rubric_data' = Remaining(gone)
          /\ change_history' =
                 CascadeDelete(change_history, DOMAIN rubric_data \ gone)
    /\ UNCHANGED <<backend, clients, nextHistoryId, calls>>
    /\ UNCHANGED <<ingestVars, diffVars, viewVars>>

\* delete().eq('discipline', discipline).eq('level', role)
deleteRole(role) ==
    /\ backend = "supabase"
    /\ LET gone == {id \in DOMAIN rubric_data : rubric_data[id].level = role}
       IN /\ gone # {}
          /\ rubric_data' = Remaining(gone)
          /\ change_history' =
                 CascadeDelete(change_history, DOMAIN rubric_data \ gone)
    /\ UNCHANGED <<backend, clients, nextHistoryId, calls>>
    /\ UNCHANGED <<ingestVars, diffVars, viewVars>>

\* the caller takes the result; the client is free for its next call
Return(c) ==
    /\ calls[c].pc = "done"
    /\ calls' = [calls EXCEPT ![c] = IdleCall]
    /\ UNCHANGED <<backend, clients, rubric_data, change_history, nextHistoryId>>
    /\ UNCHANGED <<ingestVars, diffVars, viewVars>>

Next ==
    \/ \E c \in Clients, id \in RubricIds, f \in FieldNames, by \in Actors :
          \E v \in FieldValues(f) : updateRubric_read(c, id, f, v, by)
    \/ \E c \in Clients : updateRubric_write(c)
    \/ \E c \in Clients : updateRubric_audit(c)
    \/ \E c \in Clients, hid \in 1..MaxHistory : revertChange_readHistory(c, hid)
    \/ \E c \in Clients : revertChange_readRubric(c)
    \/ \E c \in Clients : revertChange_write(c)
    \/ \E c \in Clients : revertChange_audit(c)
    \/ \E c \in Clients, id \in RubricIds, f \in FieldNames :
          \E v \in FieldValues(f) : putRubric(c, id, f, v)
    \/ \E stage \in Values : deleteStage(stage)
    \/ \E role \in Levels : deleteRole(role)
    \/ \E c \in Clients : Return(c)

Spec == Init /\ [][Next]_vars

\* two callers of the Supabase client at once: nothing serializes their
\* calls
InitRace ==
    /\ backend = "supabase"
    /\ clients = Clients
    /\ rubric_data = InitRows
    /\ change_history = <<>>
    /\ nextHistoryId = 1
    /\ calls = [c \in Clients |-> IdleCall]
    /\ IngestIdle
    /\ DiffIdle
    /\ ViewIdle

\* both callers edit the same cell
NextRace ==
    \/ \E c \in Clients, id \in DOMAIN InitRows, by \in Actors :
          \E v \in FieldValues("score_1") :
             updateRubric_read(c, id, "score_1", v, by)
    \/ \E c \in Clients : updateRubric_write(c)
    \/ \E c \in Clients : updateRubric_audit(c)
    \/ \E c \in Clients : Return(c)

SpecRace == InitRace /\ [][NextRace]_vars

----------------------------------------------------------------------------
(* CSV ingestion: csvParser.loadRubricData (client) and migrate (server).  *)
(* A cell is the sequence of its characters; Papa.parse with header: true  *)
(* hands each row over as a map from the file's column names to cells.     *)

\* the entries of config.files
FileIds == {1, 2}

\* fileConfig.level of a file
LevelOf(file) == IF file = 1 THEN "L1" ELSE "L2"

\* names of the first column of a file
StageHeaders == {"Assessment Stage", "Focus Area", "Stage"}

StageCells == {<<>>, <<" ">>, <<"A">>, <<" ", "B">>}

CompetencyCells ==
    {<<>>, <<"C", "o", "m", "p", "e", "t", "e", "n", "c", "y">>, <<"X", ":">>}

ScoreCells == {<<>>, <<"s">>}

\* Object.keys of a row of a file whose first column is named h0
HeadersOf(h0) == <<h0, "Competency", "Level 1">>

\* the rows a file with these column names may hold; no file, no rows
Rows(hs) ==
    IF hs = <<>> THEN {}
    ELSE {(hs[1] :> st @@ hs[2] :> co @@ hs[3] :> sc) :
             st \in StageCells, co \in CompetencyCells, sc \in ScoreCells}

\* the column names loadRubricData reads the stage label from
StageAliases ==
    <<"Assessment Stage", "Interview Stage", "interview_stage", "Focus Area">>

\* a row cut down to the stage columns of either loader: the alias columns
\* and the first column of the file
StageColumns(row) ==
    [name \in {n \in DOMAIN row :
                 n = headers[1] \/ \E i \in 1..Len(StageAliases) : n = StageAliases[i]}
        |-> row[name]]

\* what the scan keeps of a row: its stage columns and its sub-label cell
ScannedColumns(row) ==
    StageColumns(row) @@
    [name \in {n \in DOMAIN row : n = "Competency"} |-> row[name]]

isWhitespace(ch) == ch = " "

RECURSIVE trimStart(_)
trimStart(cell) ==
    IF cell # <<>> /\ isWhitespace(Head(cell)) THEN trimStart(Tail(cell))
    ELSE cell

RECURSIVE trimEnd(_)
trimEnd(cell) ==
    IF cell # <<>> /\ isWhitespace(cell[Len(cell)])
    THEN trimEnd(SubSeq(cell, 1, Len(cell) - 1))
    ELSE cell

\* String.prototype.trim
trim(cell) == trimEnd(trimStart(cell))

\* String.prototype.toLowerCase, on the letters of the model's cells
toLowerCase(cell) ==
    [i \in 1..Len(cell) |->
        IF cell[i] = "C" THEN "c" ELSE IF cell[i] = "X" THEN "x" ELSE cell[i]]

\* row[name]?.trim() || '' : the empty string for a missing column too
TrimmedCell(row, name) ==
    IF name \in DOMAIN row THEN trim(row[name]) ELSE <<>>

\* row[n1]?.trim() || row[n2]?.trim() || ... || ''
RECURSIVE FirstTrimmed(_, _)
FirstTrimmed(row, names) ==
    IF names = <<>> THEN <<>>
    ELSE IF TrimmedCell(row, Head(names)) # <<>>
         THEN TrimmedCell(row, Head(names))
         ELSE FirstTrimmed(row, Tail(names))

\* row[n1] if truthy, else row[n2] if truthy, ..., else ''
RECURSIVE FirstTruthy(_, _)
FirstTruthy(row, names) ==
    IF names = <<>> THEN <<>>
    ELSE IF Head(names) \in DOMAIN row /\ row[Head(names)] # <<>>
         THEN row[Head(names)]
         ELSE FirstTruthy(row, Tail(names))

\* loadRubricData: const stage = row['Assessment Stage']?.trim() || ...
loadRubricData_stage(row) ==
    FirstTrimmed(row, StageAliases)

\* loadRubricData: let competency = row['Competency']?.trim() || ...
loadRubricData_competency(row) ==
    FirstTrimmed(row, <<"Competency", "competency">>)

\* competency.replace(/:\s*$/, '').trim()
normalizeCompetency(competency) ==
    LET t == trimEnd(competency)
    IN IF t # <<>> /\ t[Len(t)] = ":"
       THEN trim(SubSeq(t, 1, Len(t) - 1))
       ELSE trim(competency)

\* k.startsWith('Level 1'), on the column names of the model
startsWithLevel(k) == k \in {"Level 1", "Level 1: Basic", "Level 10"}

\* keys.find(k => k.startsWith('Level 1')): the first such key, if any
RECURSIVE findLevelKey(_)
findLevelKey(keys) ==
    IF keys = <<>> THEN Undefined
    ELSE IF startsWithLevel(Head(keys)) THEN Head(keys)
    ELSE findLevelKey(Tail(keys))

\* getScoreValue(row, 1): the cell of the first of the exact names that
\* has a non-empty one, else the cell of the first key that starts with
\* 'Level 1', else ''; keys is Object.keys(row)
getScoreValue(keys, row) ==
    IF FirstTruthy(row, <<"Level 1", "1", "score_1">>) # <<>>
    THEN FirstTruthy(row, <<"Level 1", "1", "score_1">>)
    ELSE IF findLevelKey(keys) # Undefined THEN row[findLevelKey(keys)]
    ELSE <<>>

\* loadRubricData's accumulator without carry-forward: the row's own label
loadRubricData_currentStage_own(stage, current) == stage

\* if (stage) currentStage = stage
loadRubricData_currentStage(stage, current) ==
    IF stage # <<>> THEN stage ELSE current

\* loadRubricData with currentStage declared outside the loop over the files:
\* the next file starts with the label the last one ended with
loadRubricData_openFile_keepStage(h0) ==
    /\ source = "csvParser"
    /\ fileIdx + 1 \in FileIds
    /\ fileIdx' = fileIdx + 1
    /\ headers' = HeadersOf(h0)
    /\ scanned' = <<>>
    /\ UNCHANGED <<source, rowsRead, rubricData, currentStage>>
    /\ UNCHANGED <<auditVars, diffVars, viewVars>>

\* the next entry of config.files is fetched and parsed; currentStage = ''
loadRubricData_openFile(h0) ==
    /\ source = "csvParser"
    /\ fileIdx + 1 \in FileIds
    /\ fileIdx' = fileIdx + 1
    /\ headers' = HeadersOf(h0)
    /\ scanned' = <<>>
    /\ currentStage' = <<>>
    /\ UNCHANGED <<source, rowsRead, rubricData>>
    /\ UNCHANGED <<auditVars, diffVars, viewVars>>

\* a failed file that ends the whole load with nothing (C21)
loadRubricData_skipFile_abort ==
    /\ source = "csvParser"
    /\ fileIdx + 1 \in FileIds
    /\ fileIdx' = fileIdx + 1
    /\ headers' = <<>>
    /\ scanned' = <<>>
    /\ currentStage' = <<>>
    /\ rubricData' = <<>>
    /\ UNCHANGED <<source, rowsRead>>
    /\ UNCHANGED <<auditVars, diffVars, viewVars>>

\* if (!response.ok) continue, and a fetch that throws: the file gives no row
loadRubricData_skipFile ==
    /\ source = "csvParser"
    /\ fileIdx + 1 \in FileIds
    /\ fileIdx' = fileIdx + 1
    /\ headers' = <<>>
    /\ scanned' = <<>>
    /\ currentStage' = <<>>
    /\ UNCHANGED <<source, rowsRead, rubricData>>
    /\ UNCHANGED <<auditVars, diffVars, viewVars>>

\* one pass of for (const row of parsed.data)
loadRubricData_row(row) ==
    /\ source = "csvParser"
    /\ headers # <<>>
    /\ rowsRead < MaxRows
    /\ row \in Rows(headers)
    /\ LET stage == loadRubricData_stage(row)
           competency == loadRubricData_competency(row)
           stageNow == loadRubricData_currentStage(stage, currentStage)
           name == normalizeCompetency(competency)
           score_1 == getScoreValue(headers, row)
       IN /\ currentStage' = stageNow
          /\ rubricData' =
                IF toLowerCase(competency) =
                       <<"c", "o", "m", "p", "e", "t", "e", "n", "c", "y">>
                THEN rubricData
                ELSE IF name = <<>> THEN rubricData
                ELSE IF score_1 = <<>> THEN rubricData
                ELSE Append(rubricData,
                         [interview_stage |-> stageNow, competency |-> name,
                          designer_level |-> LevelOf(fileIdx),
                          score_1 |-> score_1,
                          file |-> fileIdx, row |-> Len(scanned) + 1])
    /\ scanned' = Append(scanned, ScannedColumns(row))
    /\ rowsRead' = rowsRead + 1
    /\ UNCHANGED <<source, fileIdx, headers>>
    /\ UNCHANGED <<auditVars, diffVars, viewVars>>

\* headers.includes(name)
Includes(hs, name) == \E i \in 1..Len(hs) : hs[i] = name

getStageColumn(hs) ==
    IF Includes(hs, "Assessment Stage") THEN "Assessment Stage"
    ELSE IF Includes(hs, "Focus Area") THEN "Focus Area"
    ELSE hs[1]

\* header.toLowerCase().includes('level 1'), on the column names of the
\* model
includesLevel(header) ==
    header \in {"Level 1", "Level 1: Basic", "Level 10"}

\* scoreColumns[0]: every header that contains 'level 1' is assigned in
\* turn, the last one stays; undefined when there is none
getScoreColumns(hs) ==
    LET S == {i \in 1..Len(hs) : includesLevel(hs[i])}
    IN IF S = {} THEN Undefined
       ELSE hs[CHOOSE i \in S : \A j \in S : j <= i]

\* const stage = row[stageColumn]?.trim() || lastStage
migrate_stage(row, stageColumn, lastStage) ==
    IF TrimmedCell(row, stageColumn) # <<>>
    THEN TrimmedCell(row, stageColumn)
    ELSE lastStage

\* the file of the next entry of filesConfig.files is parsed; lastStage = ''
migrate_openFile(h0) ==
    /\ source = "migrate"
    /\ fileIdx + 1 \in FileIds
    /\ fileIdx' = fileIdx + 1
    /\ headers' = HeadersOf(h0)
    /\ scanned' = <<>>
    /\ currentStage' = <<>>
    /\ UNCHANGED <<source, rowsRead, rubricData>>
    /\ UNCHANGED <<auditVars, diffVars, viewVars>>

\* if (!fs.existsSync(rubricPath)) continue
migrate_skipFile ==
    /\ source = "migrate"
    /\ fileIdx + 1 \in FileIds
    /\ fileIdx' = fileIdx + 1
    /\ headers' = <<>>
    /\ scanned' = <<>>
    /\ currentStage' = <<>>
    /\ UNCHANGED <<source, rowsRead, rubricData>>
    /\ UNCHANGED <<auditVars, diffVars, viewVars>>

\* one pass of for (const row of rubricData), INSERT INTO rubrics included
migrate_row(row) ==
    /\ source = "migrate"
    /\ headers # <<>>
    /\ rowsRead < MaxRows
    /\ row \in Rows(headers)
    /\ LET stage == migrate_stage(row, getStageColumn(headers), currentStage)
           competency == TrimmedCell(row, "Competency")
           score1 == TrimmedCell(row, getScoreColumns(headers))
       IN /\ currentStage' = IF stage # <<>> THEN stage ELSE currentStage
          /\ rubricData' =
                IF competency = <<>> THEN rubricData
                ELSE Append(rubricData,
                         [interview_stage |-> stage, competency |-> competency,
                          designer_level |-> LevelOf(fileIdx),
                          score_1 |-> score1,
                          file |-> fileIdx, row |-> Len(scanned) + 1])
    /\ scanned' = Append(scanned, ScannedColumns(row))
    /\ rowsRead' = rowsRead + 1
    /\ UNCHANGED <<source, fileIdx, headers>>
    /\ UNCHANGED <<auditVars, diffVars, viewVars>>

\* an ingestion run starts: no file opened, nothing emitted, and no
\* controller call runs meanwhile
InitIngest ==
    /\ backend = "rest"
    /\ AuditIdle
    /\ source \in {"csvParser", "migrate"}
    /\ fileIdx = 0
    /\ headers = <<>>
    /\ scanned = <<>>
    /\ rowsRead = 0
    /\ currentStage = <<>>
    /\ rubricData = <<>>
    /\ DiffIdle
    /\ ViewIdle

NextIngest ==
    \/ \E h0 \in StageHeaders : loadRubricData_openFile(h0)
    \/ loadRubricData_skipFile
    \/ \E row \in Rows(headers) : loadRubricData_row(row)
    \/ \E h0 \in StageHeaders : migrate_openFile(h0)
    \/ migrate_skipFile
    \/ \E row \in Rows(headers) : migrate_row(row)

SpecIngest == InitIngest /\ [][NextIngest]_vars

----------------------------------------------------------------------------
(* CSV ingestion of the ladders: csvParser.loadLaddersData.  Papa.parse    *)
(* with header: false hands each row over as the array of its cells; the   *)
(* first row is the header row.                                            *)

\* header rows of a ladders file: focus area, competency, then the roles
LadderHeaders ==
    {<<"Focus Area", "Competency", "R1">>,
     <<"Focus Area", "Competency", "-", "R1">>}

FocusCells == {<<>>, <<"A">>}

LadderCompetencyCells == {<<>>, <<":">>, <<"X">>}

RoleCells == {<<>>, <<"v">>}

\* the data rows a ladders file with this header row may hold: rows of the
\* header's length, and the row that has one cell only
LadderRows(hs) ==
    IF hs = <<>> THEN {}
    ELSE {<<fa>> : fa \in FocusCells}
         \cup {<<fa, co>> \o roles :
                 fa \in FocusCells, co \in LadderCompetencyCells,
                 roles \in [1..(Len(hs) - 2) -> RoleCells]}

\* headers.slice(2).filter(h => h && h.trim() && h !== '-'), on the model's
\* header names
RECURSIVE roleHeaders(_)
roleHeaders(hs) ==
    IF Len(hs) <= 2 THEN <<>>
    ELSE LET rest == roleHeaders(SubSeq(hs, 1, Len(hs) - 1))
             h == hs[Len(hs)]
         IN IF h # "" /\ h # " " /\ h # "-" THEN Append(rest, h) ELSE rest

\* row[i]?.trim() || '' of an array row, i counted from 0
TrimmedAt(row, i) == IF i + 1 <= Len(row) THEN trim(row[i + 1]) ELSE <<>>

\* roles[role] = row[idx + 2]?.trim() || '-', idx the position of the role
\* in roleHeaders
loadLaddersData_roles(hs, row) ==
    LET rs == roleHeaders(hs)
    IN [role \in {rs[i] : i \in 1..Len(rs)} |->
           LET idx == CHOOSE i \in 1..Len(rs) : rs[i] = role
               value == TrimmedAt(row, (idx - 1) + 2)
           IN IF value # <<>> THEN value ELSE <<"-">>]

\* the file is fetched and parsed: headers = parsed.data[0],
\* currentFocusArea = ''
loadLaddersData_open(hs) ==
    /\ source = "ladders"
    /\ fileIdx = 0
    /\ fileIdx' = 1
    /\ headers' = hs
    /\ scanned' = <<>>
    /\ currentStage' = <<>>
    /\ UNCHANGED <<source, rowsRead, rubricData>>
    /\ UNCHANGED <<auditVars, diffVars, viewVars>>

\* one pass of for (let i = 1; i < parsed.data.length; i++)
loadLaddersData_row(row) ==
    /\ source = "ladders"
    /\ headers # <<>>
    /\ rowsRead < MaxRows
    /\ row \in LadderRows(headers)
    /\ IF Len(row) < 2
       THEN UNCHANGED <<currentStage, rubricData>>
       ELSE LET focusArea == TrimmedAt(row, 0)
                competency == TrimmedAt(row, 1)
                focusNow == IF focusArea # <<>> THEN focusArea ELSE currentStage
            IN /\ currentStage' = focusNow
               /\ rubricData' =
                     IF competency = <<>> THEN rubricData
                     ELSE Append(rubricData,
                              [focusArea |-> focusNow,
                               competency |-> competency,
                               roles |-> loadLaddersData_roles(headers, row),
                               file |-> fileIdx, row |-> Len(scanned) + 1])
    /\ scanned' = Append(scanned, row)
    /\ rowsRead' = rowsRead + 1
    /\ UNCHANGED <<source, fileIdx, headers>>
    /\ UNCHANGED <<auditVars, diffVars, viewVars>>

\* a call of loadLaddersData starts
InitLadders ==
    /\ backend = "rest"
    /\ AuditIdle
    /\ source = "ladders"
    /\ fileIdx = 0
    /\ headers = <<>>
    /\ scanned = <<>>
    /\ rowsRead = 0
    /\ currentStage = <<>>
    /\ rubricData = <<>>
    /\ DiffIdle
    /\ ViewIdle

NextLadders ==
    \/ \E hs \in LadderHeaders : loadLaddersData_open(hs)
    \/ \E row \in LadderRows(headers) : loadLaddersData_row(row)

SpecLadders == InitLadders /\ [][NextLadders]_vars

----------------------------------------------------------------------------
(* Resolution of the first score column, by either loader *)

MaxScoreColumns == 2

\* column names a score may stand under
ScoreNames == {"Level 1", "1", "score_1", "Level 1: Basic", "Level 10"}

ScoreValueCells == {<<>>, <<"s">>, <<"t">>}

\* the header rows of up to n of these columns
ScoreHeaders(n) ==
    {hs \in UNION {[1..m -> ScoreNames] : m \in 0..n} :
        \A i, j \in DOMAIN hs : i # j => hs[i] # hs[j]}

\* the rows under a header row
ScoreRows(hs) == [{hs[i] : i \in DOMAIN hs} -> ScoreValueCells]

\* loadRubricData: const score_1 = getScoreValue(row, 1)
getScoreValue_call ==
    /\ slot.fn = "none"
    /\ slot' = [slot EXCEPT !.fn = "getScoreValue",
                            !.value = getScoreValue(slot.keys, slot.row)]
    /\ UNCHANGED <<auditVars, ingestVars, diffVars, panel, app, keyed>>

\* migrate: const score1 = row[scoreColumns[0]]?.trim() || ''
getScoreColumns_call ==
    /\ slot.fn = "none"
    /\ slot' = [slot EXCEPT !.fn = "getScoreColumns",
                            !.value = TrimmedCell(slot.row,
                                                  getScoreColumns(slot.keys))]
    /\ UNCHANGED <<auditVars, ingestVars, diffVars, panel, app, keyed>>

\* a parsed row of a file with some score columns
InitScore ==
    /\ backend = "rest"
    /\ AuditIdle
    /\ IngestIdle
    /\ DiffIdle
    /\ panel = PanelClosed
    /\ app = AppIdle
    /\ keyed = KeyedIdle
    /\ \E hs \in ScoreHeaders(MaxScoreColumns) :
          \E row \in ScoreRows(hs) :
             slot = [fn |-> "none", keys |-> hs, row |-> row, value |-> <<>>]

NextScore ==
    \/ getScoreValue_call
    \/ getScoreColumns_call

SpecScore == InitScore /\ [][NextScore]_vars

----------------------------------------------------------------------------
(* The history view: supabaseApi.fetchChangelog and HistoryPanel *)

\* the limit HistoryPanel.loadHistory passes to fetchChangelog
HistoryLimit == 2

RECURSIVE Reverse(_)
Reverse(seq) ==
    IF seq = <<>> THEN <<>> ELSE Append(Reverse(Tail(seq)), Head(seq))

\* .order('changed_at', { ascending: false }).limit(limit): the table holds
\* its rows in the order of their changed_at
fetchChangelog(limit) ==
    LET newestFirst == Reverse(change_history)
    IN SubSeq(newestFirst, 1,
              IF Len(newestFirst) < limit THEN Len(newestFirst) ELSE limit)

\* history.filter(h => h.record_id === filteredRecordId && ...)
RECURSIVE filterRecord(_, _)
filterRecord(h, recordId) ==
    IF h = <<>> THEN <<>>
    ELSE IF Head(h).rubric_id = recordId
         THEN <<Head(h)>> \o filterRecord(Tail(h), recordId)
         ELSE filterRecord(Tail(h), recordId)

\* the entries the panel lists
filteredHistory ==
    IF panel.filteredRecordId # 0
    THEN filterRecord(panel.history, panel.filteredRecordId)
    ELSE panel.history

\* {!isRevertEntry(entry) && entry.old_value && (...)}: the entry is shown
\* with its Revert button, the only caller of handleRevert
HistoryPanel_showsRevert(entry) ==
    ~isRevertEntry(entry) /\ entry.old_value # ""

\* the panel is opened, for all records or for one
HistoryPanel_open(recordId) ==
    /\ ~panel.isOpen
    /\ panel' = [panel EXCEPT !.isOpen = TRUE, !.filteredRecordId = recordId]
    /\ UNCHANGED <<auditVars, ingestVars, diffVars, slot, app, keyed>>

\* const data = await fetchChangelog(100); setHistory(data)
HistoryPanel_loadHistory ==
    /\ panel.isOpen
    /\ ~panel.loaded
    /\ panel' = [panel EXCEPT !.loaded = TRUE,
                              !.history = fetchChangelog(HistoryLimit)]
    /\ UNCHANGED <<auditVars, ingestVars, diffVars, slot, app, keyed>>

\* the second row of the discipline
SecondRow ==
    (2 :> [stage |-> "a", level |-> "L2", competency |-> "c1", score_1 |-> ""])

\* the history tables n edits of score_1 on the two rows leave behind
EditHistories(n) ==
    {h \in [1..n -> [id : 1..n, rubric_id : RubricIds, field : {"score_1"},
                     old_value : {"", "a"}, new_value : {"b"},
                     changed_by : {"alice"}]] :
        \A i \in 1..n : h[i].id = i}

\* two rows, some edits of them on record (up to one more than a listing
\* holds), the panel closed
InitHistory ==
    /\ backend = "supabase"
    /\ clients = {"c1"}
    /\ rubric_data = InitRows @@ SecondRow
    /\ \E n \in 0..(HistoryLimit + 1) :
          /\ change_history \in EditHistories(n)
          /\ nextHistoryId = n + 1
    /\ calls = [c \in Clients |-> IdleCall]
    /\ IngestIdle
    /\ DiffIdle
    /\ panel = PanelClosed
    /\ slot = SlotIdle
    /\ app = AppIdle
    /\ keyed = KeyedIdle

NextHistory ==
    \/ \E recordId \in {0} \cup RubricIds : HistoryPanel_open(recordId)
    \/ HistoryPanel_loadHistory

SpecHistory == InitHistory /\ [][NextHistory]_vars

----------------------------------------------------------------------------
(* AppContext: rubricData in memory and updateCell *)

\* fetchRubrics and loadDataFromApi's transformedRubrics: the rows of the
\* table under the field names of the API, a null score as ''
fetchRubrics(rows) ==
    [id \in DOMAIN rows |->
        [interview_stage |-> rows[id].stage,
         competency |-> rows[id].competency,
         designer_level |-> rows[id].level,
         score_1 |-> OrEmpty(rows[id].score_1)]]

\* prev.map(item => item.id === id ? { ...item, [field]: value } : item)
setRubricData(prev, id, field, value) ==
    [i \in DOMAIN prev |->
        IF i = id
        THEN [f \in DOMAIN prev[i] \cup {field} |->
                 IF f = field THEN value ELSE prev[i][f]]
        ELSE prev[i]]

\* updateCell up to its await: without the API it throws; with it, the
\* optimistic update and the start of updateRubric(id, field, value), which
\* names no user
updateCell(id, field, value) ==
    /\ app.pc = "idle"
    /\ CanBegin("c1")
    /\ IF ~app.useApi
       THEN /\ app' = [app EXCEPT !.pc = "returned", !.id = id,
                                  !.field = field, !.thrown = TRUE,
                                  !.before = app.rubricData]
            /\ calls' = calls
       ELSE /\ app' = [app EXCEPT !.pc = "updating", !.id = id,
                           !.field = field, !.before = app.rubricData,
                           !.rubricData =
                               setRubricData(app.rubricData, id, field, value)]
            /\ calls' = [calls EXCEPT !["c1"] =
                   updateRubric_afterRead(
                       [IdleCall EXCEPT !.op = "updateRubric", !.id = id,
                            !.field = field, !.value = value])]
    /\ UNCHANGED <<backend, clients, rubric_data, change_history, nextHistoryId>>
    /\ UNCHANGED <<ingestVars, diffVars, panel, slot, keyed>>

\* try { await updateRubric(...) } catch (error) { await reloadData(); ... }:
\* updateRubric came back; a failure goes on to the reload
updateCell_afterUpdate ==
    /\ app.pc = "updating"
    /\ calls["c1"].pc = "done"
    /\ app' = [app EXCEPT !.pc = IF calls["c1"].result = "ok"
                                 THEN "returned" ELSE "reloading"]
    /\ calls' = [calls EXCEPT !["c1"] = IdleCall]
    /\ UNCHANGED <<backend, clients, rubric_data, change_history, nextHistoryId>>
    /\ UNCHANGED <<ingestVars, diffVars, panel, slot, keyed>>

\* loadData: try { loadDataFromApi } catch { setDataStatus('error') }; a
\* fetch that fails sets no rubricData and loadData throws nothing
loadData(fetched) ==
    IF fetched THEN fetchRubrics(rubric_data) ELSE app.rubricData

\* await reloadData(); throw error
reloadData ==
    /\ app.pc = "reloading"
    /\ \E fetched \in BOOLEAN :
          app' = [app EXCEPT !.pc = "returned", !.thrown = TRUE,
                             !.rubricData = loadData(fetched)]
    /\ UNCHANGED <<auditVars, ingestVars, diffVars, panel, slot, keyed>>

\* the caller of updateCell takes its result
updateCell_return ==
    /\ app.pc = "returned"
    /\ app' = [app EXCEPT !.pc = "idle", !.id = 0, !.field = "",
                          !.thrown = FALSE, !.before = <<>>]
    /\ UNCHANGED <<auditVars, ingestVars, diffVars, panel, slot, keyed>>

\* the data of the discipline is loaded, with the API server or without it
InitApp ==
    /\ backend = "supabase"
    /\ AuditIdle
    /\ IngestIdle
    /\ DiffIdle
    /\ panel = PanelClosed
    /\ slot = SlotIdle
    /\ keyed = KeyedIdle
    /\ \E useApi \in BOOLEAN :
          app = [AppIdle EXCEPT !.useApi = useApi,
                                !.rubricData = fetchRubrics(InitRows)]

NextApp ==
    \/ \E id \in RubricIds, f \in FieldNames :
          \E v \in FieldValues(f) : updateCell(id, f, v)
    \/ updateRubric_write("c1")
    \/ updateCell_afterUpdate
    \/ reloadData
    \/ updateCell_return
    \/ \E stage \in Values : deleteStage(stage)

SpecApp == InitApp /\ [][NextApp]_vars

----------------------------------------------------------------------------
(* Composite keys: createRole, fetchQuestions, loadQuestions *)

\* stage and competency labels, as the characters they are made of
Labels == {<<"a">>, <<"a", "_">>, <<"_", "a">>, <<"a", ":">>}

\* the levels of the discipline's rubric rows
KeyedLevels == {"L1", "L2"}

\* `${stage}_${competency}`
compositeKey(stage, competency) == stage \o <<"_">> \o competency

\* replace(/:\s*$/, ''): a last colon and the whitespace after it are cut
stripColonAndSpace(cell) ==
    LET t == trimEnd(cell)
    IN IF t # <<>> /\ t[Len(t)] = ":" THEN SubSeq(t, 1, Len(t) - 1) ELSE cell

\* replace(/:$/, '')
stripColon(cell) ==
    IF cell # <<>> /\ cell[Len(cell)] = ":"
    THEN SubSeq(cell, 1, Len(cell) - 1)
    ELSE cell

\* createRole's row for the new role
createRole_entry(row, roleName) ==
    [level |-> roleName, stage |-> row.stage, competency |-> row.competency,
     score_1 |-> <<>>]

\* the Map unique: a row is set under its key unless the key is there
\* already; Array.from(unique.values()) is in insertion order
RECURSIVE createRole_unique(_, _)
createRole_unique(rows, has) ==
    IF rows = <<>> THEN <<>>
    ELSE LET key == compositeKey(Head(rows).stage, Head(rows).competency)
         IN IF key \in has
            THEN createRole_unique(Tail(rows), has)
            ELSE <<Head(rows)>> \o createRole_unique(Tail(rows), has \cup {key})

\* createRole: the entries it inserts, from the rows of copyFrom or, without
\* copyFrom, from the rows of the discipline, one per key
createRole(rows, roleName, copyFrom) ==
    LET isCopied(row) == row.level = copyFrom   \* .eq('level', copyFrom)
        picked == IF Truthy(copyFrom) THEN SelectSeq(rows, isCopied)
                  ELSE createRole_unique(rows, {})
    IN [i \in 1..Len(picked) |-> createRole_entry(picked[i], roleName)]

\* the index of the last row of a key
LastOfKey(keys, k) ==
    CHOOSE i \in DOMAIN keys :
        keys[i] = k /\ \A j \in DOMAIN keys : j > i => keys[j] # k

\* fetchQuestions: result[key] = { id, text }, a later row of a key replaces
\* an earlier one; the id of a row is its place in the table
fetchQuestions(rows) ==
    LET keys == [i \in DOMAIN rows |->
                    compositeKey(rows[i].stage, rows[i].competency)]
    IN [k \in {keys[i] : i \in DOMAIN keys} |->
           [id |-> LastOfKey(keys, k), text |-> rows[LastOfKey(keys, k)].question]]

\* loadQuestions' reading of a row: stage, competency without its final
\* colon, and questions, all trimmed
loadQuestions_row(row) ==
    [stage |-> trim(row.stage),
     competency |-> trim(stripColon(stripColonAndSpace(trim(row.competency)))),
     question |-> trim(row.question)]

\* if (stage && competency && questions)
loadQuestions_kept(rows) ==
    LET read == [i \in DOMAIN rows |-> loadQuestions_row(rows[i])]
        kept(row) == row.stage # <<>> /\ row.competency # <<>> /\
                     row.question # <<>>
    IN SelectSeq(read, kept)

\* loadQuestions: questionsData[key] = questions, a later row of a key
\* replaces an earlier one
loadQuestions(rows) ==
    LET kept == loadQuestions_kept(rows)
        keys == [i \in DOMAIN kept |->
                    compositeKey(kept[i].stage, kept[i].competency)]
    IN [k \in {keys[i] : i \in DOMAIN keys} |->
           kept[LastOfKey(keys, k)].question]

createRole_call(roleName, copyFrom) ==
    /\ keyed.fn = "none"
    /\ keyed.table = "rubric_data"
    /\ keyed' = [keyed EXCEPT !.fn = "createRole", !.copyFrom = copyFrom,
                              !.out = createRole(keyed.rows, roleName, copyFrom)]
    /\ UNCHANGED <<auditVars, ingestVars, diffVars, panel, slot, app>>

fetchQuestions_call ==
    /\ keyed.fn = "none"
    /\ keyed.table = "questions"
    /\ keyed' = [keyed EXCEPT !.fn = "fetchQuestions",
                              !.out = fetchQuestions(keyed.rows)]
    /\ UNCHANGED <<auditVars, ingestVars, diffVars, panel, slot, app>>

loadQuestions_call ==
    /\ keyed.fn = "none"
    /\ keyed.table = "questions"
    /\ keyed' = [keyed EXCEPT !.fn = "loadQuestions",
                              !.out = loadQuestions(keyed.rows)]
    /\ UNCHANGED <<auditVars, ingestVars, diffVars, panel, slot, app>>

\* the tables of up to n rows
RubricTables(n) ==
    UNION {[1..k -> [stage : Labels, competency : Labels, level : KeyedLevels]] :
               k \in 0..n}

QuestionTables(n) ==
    UNION {[1..k -> [stage : Labels, competency : Labels,
                     question : {<<>>, <<"q">>}]] : k \in 0..n}

\* the rubric rows of a discipline, or its questions (the rows of the
\* questions table, or of the questions file)
InitKeyed ==
    /\ backend = "supabase"
    /\ AuditIdle
    /\ IngestIdle
    /\ DiffIdle
    /\ panel = PanelClosed
    /\ slot = SlotIdle
    /\ app = AppIdle
    /\ \/ \E rows \in RubricTables(MaxKeyedRows) :
             keyed = [KeyedIdle EXCEPT !.table = "rubric_data", !.rows = rows]
       \/ \E rows \in QuestionTables(MaxKeyedRows) :
             keyed = [KeyedIdle EXCEPT !.table = "questions", !.rows = rows]

NextKeyed ==
    \/ \E copyFrom \in {Undefined} \cup KeyedLevels :
          createRole_call("L3", copyFrom)
    \/ fetchQuestions_call
    \/ loadQuestions_call

SpecKeyed == InitKeyed /\ [][NextKeyed]_vars

----------------------------------------------------------------------------
(* Properties of the Edit/Audit controller *)

\* a finished call of the given operation that reported success
Succeeded(c, op) ==
    /\ calls[c].pc = "done"
    /\ calls[c].op = op
    /\ calls[c].result = "ok"

\* C1: after an edit changed a field from A to B (entry E), a successful
\* revert of E with no edit in between leaves the field at A and has appended
\* exactly one new entry, marked as a revert.
C1_RevertRoundTrip ==
    \A c \in Clients :
        LET call == calls[c] IN
        ( /\ Succeeded(c, "revertChange")
          /\ ~isRevertEntry(call.history)
          /\ call.current = call.history.new_value
          /\ call.id \in DOMAIN rubric_data )
        => /\ rubric_data[call.id][call.field] = call.history.old_value
           /\ Len(call.appended) = 1
           /\ isRevertEntry(call.appended[1])

\* C2: when E1 records x -> y and a later edit E2 records y -> z on the same
\* field, a successful revert of E1 sets the field to x, and the entry the
\* revert appends has old_value z, the value the write replaced (not E1's
\* new_value y), and new_value x.
C2_RevertAfterInterveningEdit ==
    \A c \in Clients :
        LET call == calls[c] IN
        ( /\ Succeeded(c, "revertChange")
          /\ call.persisted )
        => /\ call.id \in DOMAIN rubric_data
                => rubric_data[call.id][call.field] = call.history.old_value
           /\ \A i \in 1..Len(call.appended) :
                /\ call.appended[i].old_value = call.before
                /\ call.appended[i].new_value = call.history.old_value
                /\ call.appended[i].rubric_id = call.history.rubric_id
                /\ call.appended[i].field = call.history.field
                /\ isRevertEntry(call.appended[i])

\* C2 witness: E1 (x -> y) was followed by E2 (y -> z) on the same field with
\* z # y, and the revert of E1 has appended its entry (z -> x).
C2_Witness ==
    \E c \in Clients :
        LET call == calls[c] IN
        /\ Succeeded(c, "revertChange")
        /\ Len(call.appended) = 1
        /\ call.appended[1].old_value # call.history.new_value
        /\ call.appended[1].new_value = call.history.old_value
        /\ \E i \in 1..Len(change_history) :
             LET E2 == change_history[i] IN
             /\ E2.id > call.history.id
             /\ E2.id < call.appended[1].id
             /\ E2.rubric_id = call.history.rubric_id
             /\ E2.field = call.history.field
             /\ E2.old_value = call.history.new_value
             /\ E2.new_value = call.appended[1].old_value

\* C3: every successful edit that changes the persisted value of a field
\* (the cell-edit path, which passes no changedBy, included; either backend)
\* has appended exactly one entry, not marked as a revert, whose old_value is
\* the value before the write and whose new_value is the value written.
C3_OneEntryPerMutation ==
    \A c \in Clients :
        LET call == calls[c] IN
        ( /\ Succeeded(c, "updateRubric")
          /\ call.persisted
          /\ call.before # call.value )
        => /\ Len(call.appended) = 1
           /\ ~isRevertEntry(call.appended[1])
           /\ call.appended[1].old_value = call.before
           /\ call.appended[1].new_value = call.value

\* C4: a successful edit whose value equals the field's persisted value
\* appends nothing to the audit log.
C4_NoOpWritesNoHistory ==
    \A c \in Clients :
        LET call == calls[c] IN
        ( /\ Succeeded(c, "updateRubric")
          /\ call.persisted
          /\ call.before = call.value )
        => call.appended = <<>>

\* C5: the audit log is append-only: no step of any operation removes or
\* changes an entry that was written.
C5_AppendOnly ==
    [][ /\ Len(change_history') >= Len(change_history)
        /\ \A i \in 1..Len(change_history) :
               i <= Len(change_history') => change_history'[i] = change_history[i]
      ]_vars

\* C6: a call that persisted the new value and whose audit append failed
\* does not report success.
C6_AuditFailureReported ==
    \A c \in Clients :
        ( /\ calls[c].pc = "done"
          /\ calls[c].persisted
          /\ calls[c].auditFailed )
        => calls[c].result # "ok"

EndsNotFound(c) ==
    /\ calls'[c].pc = "done"
    /\ calls'[c].result = "NotFound"
    /\ calls'[c].writes = 0
    /\ ~calls'[c].persisted
    /\ calls'[c].appended = <<>>
    /\ rubric_data' = rubric_data
    /\ change_history' = change_history

\* C8: a revert fails with NotFound when the named entry does not exist, and
\* when the entry exists but its row does not exist any more; in both cases
\* no field is written and no audit entry is appended.
C8_RevertNotFound ==
    [][ \A c \in Clients :
          /\ ( /\ calls[c].pc = "idle"
               /\ calls'[c].op = "revertChange"
               /\ FindHistory(change_history, calls'[c].historyId) = NoEntry )
             => EndsNotFound(c)
          /\ ( /\ calls[c].pc = "rev_read"
               /\ calls'[c] # calls[c]
               /\ calls[c].id \notin DOMAIN rubric_data )
             => EndsNotFound(c)
      ]_vars

\* C8 witness: a revert of an existing entry has ended with NotFound because
\* the row of the entry was gone when the revert looked for it.
C8_Witness ==
    \E c \in Clients :
        /\ calls[c].pc = "done"
        /\ calls[c].op = "revertChange"
        /\ calls[c].history # NoEntry
        /\ calls[c].id \notin DOMAIN rubric_data
        /\ calls[c].result = "NotFound"

\* C9: a call whose field write the store rejected ends with Conflict, has
\* appended no audit entry and has changed no row; and no call sends more
\* than one write.
C9_ConflictReported ==
    \A c \in Clients :
        /\ calls[c].writes <= 1
        /\ calls[c].rejected
           => /\ calls[c].pc = "done"
              /\ calls[c].result = "Conflict"
              /\ calls[c].appended = <<>>
              /\ ~calls[c].persisted

\* C9 witness: the store has rejected the one write of a call, and the call
\* has ended with Conflict.
C9_Witness ==
    \E c \in Clients :
        /\ calls[c].pc = "done"
        /\ calls[c].rejected
        /\ calls[c].writes = 1
        /\ calls[c].result = "Conflict"

----------------------------------------------------------------------------
(* Properties of the ingestion *)

\* the group label of a row of the file being scanned, as the running loader
\* resolves it: empty when the row omits the label
GroupLabel(row) ==
    IF source = "migrate" THEN TrimmedCell(row, getStageColumn(headers))
    ELSE loadRubricData_stage(row)

\* the nearest of the rows 1..i of the file being scanned that has a group
\* label; 0 when none has
NearestLabelled(i) ==
    LET S == {j \in 1..i : GroupLabel(scanned[j]) # <<>>}
    IN IF S = {} THEN 0 ELSE CHOOSE j \in S : \A k \in S : k <= j

\* C10: every record emitted during the scan of a file carries the group
\* label of the nearest preceding row of that file, its own row included,
\* whose group label is not empty; in particular the records of rows 1..k
\* carry the label of row 1 when rows 2..k omit theirs.
C10_CarryForward ==
    \A n \in 1..Len(rubricData) :
        LET r == rubricData[n] IN
        (r.file = fileIdx /\ NearestLabelled(r.row) # 0)
        => r.interview_stage = GroupLabel(scanned[NearestLabelled(r.row)])

\* C10 witness: row 1 of a file has a label, rows 2 and 3 omit theirs, row 2
\* gave no record, and the record of row 3 carries the label of row 1.
C10_Witness ==
    \E n \in 1..Len(rubricData) :
        LET r == rubricData[n] IN
        /\ r.file = fileIdx
        /\ r.row = 3
        /\ GroupLabel(scanned[1]) # <<>>
        /\ GroupLabel(scanned[2]) = <<>>
        /\ GroupLabel(scanned[3]) = <<>>
        /\ \A m \in 1..Len(rubricData) : rubricData[m].row # 2
        /\ r.interview_stage = GroupLabel(scanned[1])

\* C11: the accumulator is empty at the start of each file: a record of a row
\* that no labelled row of its own file precedes carries no group label, so
\* none of a file scanned earlier in the same load.
C11_ResetPerSource ==
    \A n \in 1..Len(rubricData) :
        LET r == rubricData[n] IN
        (r.file = fileIdx /\ NearestLabelled(r.row) = 0)
        => r.interview_stage = <<>>

\* C11 witness: an earlier file gave a record with a group label, and the
\* file being scanned gave a record of a row that no labelled row precedes.
C11_Witness ==
    /\ \E m \in 1..Len(rubricData) :
         /\ rubricData[m].file < fileIdx
         /\ rubricData[m].interview_stage # <<>>
    /\ \E n \in 1..Len(rubricData) :
         /\ rubricData[n].file = fileIdx
         /\ NearestLabelled(rubricData[n].row) = 0
         /\ rubricData[n].interview_stage = <<>>

\* C12: every record ingestion emits has a sub-label that is not empty, and
\* not empty once its trailing colon and white space are stripped: a row
\* whose sub-label cell is empty, or is nothing but a colon, gives no record.
C12_SubLabelRequired ==
    \A n \in 1..Len(rubricData) :
        normalizeCompetency(rubricData[n].competency) # <<>>

\* ---------------------------------------------------------------------
\* Sentence-level diff (utils/textDiff.ts).  A text is a sequence of
\* characters; an output is a sequence of characters and markup tokens.
\* ---------------------------------------------------------------------

MaxVariants == 3

\* the markup the two functions emit
HighlightOpen == "<span class=\"diff-highlight\">"
SpanClose == "</span>"
\* the glyphs U+2022 and U+2014, each one token of an output
Bullet == "U+2022"
Dash == "U+2014"
EmptyValue == <<"<span class=\"empty-value\">", Dash, SpanClose>>

\* the texts the diff is called with: the empty string, the dash, a blank,
\* one and two sentences, the same sentence behind a blank, in another
\* case, spacing or position
Texts ==
    { <<>>,
      <<"-">>,
      <<" ">>,
      <<"x", ".">>,
      <<" ", "x", ".">>,
      <<"X", ".">>,
      <<"c", ".">>,
      <<"x", " ", "c", ".">>,
      <<"x", " ", " ", "c", ".">>,
      <<"x", ".", " ", "c", ".">>,
      <<"c", ".", " ", " ", "x", ".">> }

\* [.!?]
isTerminator(ch) == ch \in {".", "!", "?"}

\* the end of the run of \s that starts at i
RECURSIVE skipWhitespace(_, _)
skipWhitespace(text, i) ==
    IF i <= Len(text) /\ isWhitespace(text[i])
    THEN skipWhitespace(text, i + 1)
    ELSE i

\* text.split(/(?<=[.!?])\s+/), from position i with the piece cur open
RECURSIVE split(_, _, _)
split(text, i, cur) ==
    IF i > Len(text) THEN <<cur>>
    ELSE IF isWhitespace(text[i]) /\ i > 1 /\ isTerminator(text[i - 1])
         THEN <<cur>> \o split(text, skipWhitespace(text, i), <<>>)
         ELSE split(text, i + 1, Append(cur, text[i]))

\* .filter(s => s.trim())
RECURSIVE filterNonBlank(_)
filterNonBlank(pieces) ==
    IF pieces = <<>> THEN <<>>
    ELSE IF trim(Head(pieces)) # <<>>
         THEN <<Head(pieces)>> \o filterNonBlank(Tail(pieces))
         ELSE filterNonBlank(Tail(pieces))

splitSentences(text) ==
    IF text = <<>> THEN <<>> ELSE filterNonBlank(split(text, 1, <<>>))

\* .replace(/\s+/g, ' ')
RECURSIVE collapseWhitespace(_)
collapseWhitespace(text) ==
    IF text = <<>> THEN <<>>
    ELSE IF isWhitespace(Head(text))
         THEN <<" ">> \o collapseWhitespace(
                  SubSeq(text, skipWhitespace(text, 1), Len(text)))
         ELSE <<Head(text)>> \o collapseWhitespace(Tail(text))

normalize(sentence) == collapseWhitespace(trim(toLowerCase(sentence)))

\* the parts joined last to first (C17)
RECURSIVE join_reversed(_)
join_reversed(parts) ==
    IF parts = <<>> THEN <<>>
    ELSE IF Len(parts) = 1 THEN Head(parts)
    ELSE join_reversed(Tail(parts)) \o <<" ">> \o Head(parts)

\* Array.prototype.join(' ')
RECURSIVE join(_)
join(parts) ==
    IF parts = <<>> THEN <<>>
    ELSE IF Len(parts) = 1 THEN Head(parts)
    ELSE Head(parts) \o <<" ">> \o join(Tail(parts))

\* texts.map(splitSentences).map(sentences => sentences.map(normalize))
allNormalizedSentences(sentencesPerText) ==
    [j \in DOMAIN sentencesPerText |->
        [k \in DOMAIN sentencesPerText[j] |->
            normalize(sentencesPerText[j][k])]]

\* getTextDiff's isCommonSentence, decided on any one text (C13)
getTextDiff_isCommonSentence_some(allNormalized, normalizedSentence) ==
    \E j \in DOMAIN allNormalized :
        \E k \in DOMAIN allNormalized[j] :
            allNormalized[j][k] = normalizedSentence

\* getTextDiff's isCommonSentence: every text has the sentence
getTextDiff_isCommonSentence(allNormalized, normalizedSentence) ==
    \A j \in DOMAIN allNormalized :
        \E k \in DOMAIN allNormalized[j] :
            allNormalized[j][k] = normalizedSentence

getTextDiff(ts) ==
    IF Len(ts) <= 1
    THEN [i \in DOMAIN ts |-> IF ts[i] # <<>> THEN ts[i] ELSE <<Dash>>]
    ELSE
        LET sentencesPerText == [j \in DOMAIN ts |-> splitSentences(ts[j])]
            allNormalized == allNormalizedSentences(sentencesPerText)
            highlight(sentence) ==
                IF ~getTextDiff_isCommonSentence(allNormalized,
                                                 normalize(sentence))
                THEN <<HighlightOpen>> \o sentence \o <<SpanClose>>
                ELSE sentence
            highlightedTexts ==
                [i \in DOMAIN ts |->
                    LET sentences == sentencesPerText[i] IN
                    IF Len(sentences) = 0
                    THEN IF ts[i] # <<>> THEN ts[i] ELSE <<Dash>>
                    ELSE join([k \in DOMAIN sentences |->
                                  highlight(sentences[k])])]
        IN [i \in DOMAIN ts |->
               IF highlightedTexts[i] # <<>> THEN highlightedTexts[i]
               ELSE <<Dash>>]

\* t && t !== '-'
isNonEmptyText(t) == t # <<>> /\ t # <<"-">>

\* getLaddersTextDiff's isCommonSentence: every non-empty text has it
getLaddersTextDiff_isCommonSentence(ts, allNormalized, normalizedSentence) ==
    \A j \in {i \in DOMAIN ts : isNonEmptyText(ts[i])} :
        \E k \in DOMAIN allNormalized[j] :
            allNormalized[j][k] = normalizedSentence

\* the sentence without its bullet (C16)
bullet_none(sentence) == sentence

\* `U+2022 ${s}`: the glyph, a blank, the sentence
bullet(sentence) == <<Bullet, " ">> \o sentence

getLaddersTextDiff(ts) ==
    IF Len(ts) <= 1
    THEN [i \in DOMAIN ts |->
             IF ~isNonEmptyText(ts[i]) THEN EmptyValue
             ELSE LET sentences == splitSentences(ts[i]) IN
                  IF Len(sentences) <= 1 THEN ts[i]
                  ELSE join([k \in DOMAIN sentences |->
                                bullet(sentences[k])])]
    ELSE IF \A i \in DOMAIN ts : ~isNonEmptyText(ts[i])
    THEN [i \in DOMAIN ts |-> EmptyValue]
    ELSE
        LET sentencesPerText ==
                [j \in DOMAIN ts |->
                    splitSentences(IF ts[j] = <<"-">> THEN <<>> ELSE ts[j])]
            allNormalized == allNormalizedSentences(sentencesPerText)
            render(sentence) ==
                LET isUnique == ~getLaddersTextDiff_isCommonSentence(
                                    ts, allNormalized, normalize(sentence))
                    bulletSentence == bullet(sentence)
                IN IF isUnique
                   THEN <<HighlightOpen>> \o bulletSentence \o <<SpanClose>>
                   ELSE bulletSentence
        IN [i \in DOMAIN ts |->
               IF ~isNonEmptyText(ts[i]) THEN EmptyValue
               ELSE LET sentences == sentencesPerText[i] IN
                    IF Len(sentences) = 0 THEN ts[i]
                    ELSE join([k \in DOMAIN sentences |->
                                  render(sentences[k])])]

\* a caller passes one text per compared level or role
getTextDiff_call ==
    /\ diffFn = "none"
    /\ diffFn' = "getTextDiff"
    /\ diffOut' = getTextDiff(texts)
    /\ UNCHANGED <<auditVars, ingestVars, viewVars, texts>>

getLaddersTextDiff_call ==
    /\ diffFn = "none"
    /\ diffFn' = "getLaddersTextDiff"
    /\ diffOut' = getLaddersTextDiff(texts)
    /\ UNCHANGED <<auditVars, ingestVars, viewVars, texts>>

InitDiff ==
    /\ backend = "rest"
    /\ AuditIdle
    /\ IngestIdle
    /\ \E n \in 1..MaxVariants : texts \in [1..n -> Texts]
    /\ diffFn = "none"
    /\ diffOut = <<>>
    /\ ViewIdle

NextDiff ==
    \/ getTextDiff_call
    \/ getLaddersTextDiff_call

SpecDiff == InitDiff /\ [][NextDiff]_vars

\* ---------------------------------------------------------------------
\* Properties of the diff
\* ---------------------------------------------------------------------

\* a variant that is neither the empty string nor the dash
Present(t) == t # <<>> /\ t # <<"-">>

AllPresent == \A i \in DOMAIN texts : Present(texts[i])

Range(seq) == {seq[k] : k \in DOMAIN seq}

\* the sentence set of a variant: its sentences, normalized
SentenceSet(t) == {normalize(sentence) : sentence \in Range(splitSentences(t))}

\* the sentences an output shows inside a highlight wrapper, without
\* their bullet prefix
RECURSIVE WrappedBodies(_)
WrappedBodies(out) ==
    LET opens == {p \in DOMAIN out : out[p] = HighlightOpen} IN
    IF opens = {} THEN {}
    ELSE
        LET p == CHOOSE x \in opens : \A y \in opens : x <= y
            closes == {q \in DOMAIN out : q > p /\ out[q] = SpanClose}
        IN IF closes = {} THEN {SubSeq(out, p + 1, Len(out))}
           ELSE
               LET q == CHOOSE x \in closes : \A y \in closes : x <= y
                   inner == SubSeq(out, p + 1, q - 1)
                   body ==
                       IF Len(inner) >= 2 /\ inner[1] = Bullet
                                          /\ inner[2] = " "
                       THEN SubSeq(inner, 3, Len(inner))
                       ELSE inner
               IN {body} \cup WrappedBodies(SubSeq(out, q + 1, Len(out)))

\* C13: when two or more variants are compared and all of them are
\* present, a sentence of a variant is shown inside the highlight wrapper
\* exactly when its normalized form is missing from the sentence set of
\* at least one variant, in the prose and in the bulleted flavor.
C13_StrictCommonality ==
    (diffFn # "none" /\ Len(texts) >= 2 /\ AllPresent) =>
        \A i \in DOMAIN texts :
            \A sentence \in Range(splitSentences(texts[i])) :
                (sentence \in WrappedBodies(diffOut[i]))
                <=> (\E j \in DOMAIN texts :
                        normalize(sentence) \notin SentenceSet(texts[j]))

\* three present variants: one sentence is in the first two only and is
\* highlighted in both, another is in all three at different positions
\* and is highlighted in none
C13_Witness ==
    /\ diffFn # "none"
    /\ Len(texts) = 3
    /\ AllPresent
    /\ \E s \in Range(splitSentences(texts[1])) :
          /\ normalize(s) \in SentenceSet(texts[2])
          /\ normalize(s) \notin SentenceSet(texts[3])
          /\ s \in WrappedBodies(diffOut[1])
          /\ \E s2 \in Range(splitSentences(texts[2])) :
                /\ normalize(s2) = normalize(s)
                /\ s2 \in WrappedBodies(diffOut[2])
    /\ \E k1 \in DOMAIN splitSentences(texts[1]) :
          \E k2 \in DOMAIN splitSentences(texts[2]) :
             /\ k1 # k2
             /\ normalize(splitSentences(texts[1])[k1])
                    = normalize(splitSentences(texts[2])[k2])
             /\ normalize(splitSentences(texts[1])[k1])
                    \in SentenceSet(texts[3])
             /\ splitSentences(texts[1])[k1] \notin WrappedBodies(diffOut[1])
             /\ splitSentences(texts[2])[k2] \notin WrappedBodies(diffOut[2])

\* C14: missing variants (the empty string, the dash) take no part in
\* the comparison: a sentence of a present variant whose normalized form
\* is in the sentence set of every present variant is not highlighted,
\* however many of the compared variants are missing, in both flavors.
C14_MissingLeftOut ==
    (diffFn # "none" /\ Len(texts) >= 2) =>
        \A i \in DOMAIN texts :
            Present(texts[i]) =>
                \A sentence \in Range(splitSentences(texts[i])) :
                    (\A j \in DOMAIN texts :
                        Present(texts[j]) =>
                            normalize(sentence) \in SentenceSet(texts[j]))
                    => sentence \notin WrappedBodies(diffOut[i])

\* the empty-marker of the flavor that was called
EmptyMarker == IF diffFn = "getTextDiff" THEN <<Dash>> ELSE EmptyValue

\* C15: when two or more variants are compared, every missing variant
\* (the empty string, the dash) is rendered as the empty-marker, never as
\* diffed or highlighted text; in particular every output is the
\* empty-marker when all variants are missing.
C15_MissingRendersEmptyMarker ==
    (diffFn # "none" /\ Len(texts) >= 2) =>
        \A i \in DOMAIN texts :
            ~Present(texts[i]) => diffOut[i] = EmptyMarker

\* every sentence of a text behind a bullet, joined by single blanks
Bulleted(t) ==
    LET sentences == splitSentences(t) IN
    join([k \in DOMAIN sentences |-> <<Bullet, " ">> \o sentences[k]])

NoHighlight(out) == \A p \in DOMAIN out : out[p] # HighlightOpen

SingleInput == diffFn # "none" /\ Len(texts) = 1 /\ Present(texts[1])

\* C16 as stated: a diff of the single present text x returns one
\* output without highlight marker, which is x itself in the prose flavor
\* and the sentences of x, each behind a bullet, in the bulleted flavor.
C16_SingleInputFormat ==
    SingleInput =>
        /\ Len(diffOut) = 1
        /\ NoHighlight(diffOut[1])
        /\ diffOut[1] = IF diffFn = "getTextDiff" THEN texts[1]
                        ELSE Bulleted(texts[1])

\* C16, amended: a diff of the single present text x returns one output
\* without highlight marker, which is x itself in the prose flavor; in
\* the bulleted flavor it is x itself when x has at most one sentence and
\* the sentences of x, each behind a bullet and joined by single blanks,
\* when x has two or more.
C16_SingleInput ==
    SingleInput =>
        /\ Len(diffOut) = 1
        /\ NoHighlight(diffOut[1])
        /\ diffOut[1] =
              IF diffFn = "getTextDiff" \/ Len(splitSentences(texts[1])) <= 1
              THEN texts[1]
              ELSE Bulleted(texts[1])

\* the bulleted flavor was called with one text of two sentences and
\* returned them behind bullets
C16_Witness ==
    /\ SingleInput
    /\ diffFn = "getLaddersTextDiff"
    /\ Len(splitSentences(texts[1])) >= 2
    /\ diffOut[1] = Bulleted(texts[1])
    /\ diffOut[1] # texts[1]

\* an output without its highlight wrappers and bullet prefixes
RECURSIVE StripMarkup(_)
StripMarkup(out) ==
    IF out = <<>> THEN <<>>
    ELSE IF Head(out) \in {HighlightOpen, SpanClose}
         THEN StripMarkup(Tail(out))
    ELSE IF Head(out) = Bullet /\ Len(out) >= 2 /\ out[2] = " "
         THEN StripMarkup(SubSeq(out, 3, Len(out)))
    ELSE <<Head(out)>> \o StripMarkup(Tail(out))

\* C17: when two or more variants are compared, the output of every
\* present variant, with the highlight wrappers and the bullet prefixes
\* removed, consists of exactly that variant's sentences in their
\* original order: none is moved, dropped or repeated.
C17_SentencesKept ==
    (diffFn # "none" /\ Len(texts) >= 2) =>
        \A i \in DOMAIN texts :
            Present(texts[i]) =>
                splitSentences(StripMarkup(diffOut[i]))
                    = splitSentences(texts[i])

\* a present variant of two sentences, one highlighted and one not, was
\* rendered next to another present variant
C17_Witness ==
    /\ diffFn # "none"
    /\ Len(texts) >= 2
    /\ \E i \in DOMAIN texts :
          /\ Present(texts[i])
          /\ Len(splitSentences(texts[i])) = 2
          /\ splitSentences(texts[i])[1] \notin WrappedBodies(diffOut[i])
          /\ splitSentences(texts[i])[2] \in WrappedBodies(diffOut[i])
          /\ StripMarkup(diffOut[i]) # diffOut[i]
          /\ splitSentences(StripMarkup(diffOut[i])) = splitSentences(texts[i])

\* ---------------------------------------------------------------------
\* Properties of the records ingestion produces
\* ---------------------------------------------------------------------

\* C18: the records produced from one source never hold the same
\* (group label, sub-label, variant) twice: a later row with a tuple
\* that was emitted before replaces the earlier record, no second record
\* is added.
C18_UniqueTuple ==
    \A m, n \in 1..Len(rubricData) :
        ( /\ rubricData[m].file = rubricData[n].file
          /\ rubricData[m].interview_stage = rubricData[n].interview_stage
          /\ rubricData[m].competency = rubricData[n].competency
          /\ rubricData[m].designer_level = rubricData[n].designer_level )
        => m = n

\* C19: every record has a non-empty group label: a row for which no
\* label is available (no grouping column in the source, or no labelled
\* row seen yet in it) is stored under a placeholder label, never under
\* the empty string.
C19_GroupKeyNonEmpty ==
    \A n \in 1..Len(rubricData) : rubricData[n].interview_stage # <<>>

\* a repeated header row: its sub-label cell is the name of the sub-label
\* column, in any case
HeaderRow(row) ==
    toLowerCase(TrimmedCell(row, "Competency"))
        = <<"c", "o", "m", "p", "e", "t", "e", "n", "c", "y">>

\* the nearest of the rows 1..i of the file being scanned that has a group
\* label and is no repeated header row; 0 when there is none
NearestLabelledData(i) ==
    LET S == {j \in 1..i : /\ GroupLabel(scanned[j]) # <<>>
                           /\ ~HeaderRow(scanned[j])}
    IN IF S = {} THEN 0 ELSE CHOOSE j \in S : \A k \in S : k <= j

\* C20: a repeated header row among the data is no data row: the records
\* loadRubricData makes of a source are those of the same source without
\* that row, so no record comes from a header row and every record carries
\* the group label the remaining rows give it (the label of the nearest
\* labelled row at or before it that is no header row, the empty label
\* when there is none).
C20_HeaderRowSkipped ==
    \A n \in 1..Len(rubricData) :
        LET r == rubricData[n] IN
        (source = "csvParser" /\ r.file = fileIdx) =>
            /\ ~HeaderRow(scanned[r.row])
            /\ r.interview_stage =
                  IF NearestLabelledData(r.row) = 0 THEN <<>>
                  ELSE GroupLabel(scanned[NearestLabelledData(r.row)])

Listable ==
    {change_history[i] : i \in
        {j \in 1..Len(change_history) :
            panel.filteredRecordId \in {0, change_history[j].rubric_id}}}

\* C22: the history listing holds at most limit entries, newest first;
\* with a record filter it is the newest limit entries of that record:
\* no entry of the record is left out while an older one is listed or
\* while fewer than limit are listed.
C22_NewestOfRecord ==
    panel.loaded =>
        LET shown == filteredHistory IN
        /\ Len(shown) <= HistoryLimit
        /\ \A i, j \in 1..Len(shown) : i < j => shown[i].id > shown[j].id
        /\ \A i \in 1..Len(shown) : shown[i] \in Listable
        /\ \A e \in Listable :
              (\A i \in 1..Len(shown) : shown[i] # e)
              => /\ Len(shown) = HistoryLimit
                 /\ \A i \in 1..Len(shown) : shown[i].id > e.id

\* C23: a revert of a revert is an ordinary operation: no layer treats an
\* entry a revert created differently from one an edit created, so the
\* history view offers the revert of a revert entry whenever it would
\* offer it for the same entry made by an edit.
C23_RevertOfRevertOffered ==
    \A i \in 1..Len(change_history) :
        LET entry == change_history[i] IN
        isRevertEntry(entry) =>
            ( HistoryPanel_showsRevert(entry)
              <=> HistoryPanel_showsRevert([entry EXCEPT !.changed_by = "alice"]) )

\* ---------------------------------------------------------------------
\* Further properties of the Edit/Audit controller
\* ---------------------------------------------------------------------

\* C24: an edit that names a field the record does not have ends, on
\* either backend, with a validation error (unless the record itself is
\* not found), changes no field and appends no audit entry.
C24_UnknownFieldInvalid ==
    \A c \in Clients :
        ( /\ calls[c].pc = "done"
          /\ calls[c].op = "updateRubric"
          /\ DbField(calls[c].field) \notin Columns
          /\ calls[c].result # "NotFound" )
        => /\ calls[c].result = "Invalid"
           /\ ~calls[c].persisted
           /\ calls[c].appended = <<>>

\* ---------------------------------------------------------------------
\* Properties of the score resolution
\* ---------------------------------------------------------------------

\* a column of the row that holds a value
Matched(row, name) == name \in DOMAIN row /\ row[name] # <<>>

\* the positions of the header row whose name starts with the prefix
PrefixMatches(keys) == {i \in DOMAIN keys : startsWithLevel(keys[i])}

\* the value of slot 1 by the ordered policy: the exactly named column,
\* else the numeric one, else the other exact name, else the first column
\* in header order whose name starts with the prefix, else empty
SlotValue(keys, row) ==
    IF Matched(row, "Level 1") THEN row["Level 1"]
    ELSE IF Matched(row, "1") THEN row["1"]
    ELSE IF Matched(row, "score_1") THEN row["score_1"]
    ELSE IF PrefixMatches(keys) # {}
    THEN row[keys[CHOOSE i \in PrefixMatches(keys) :
                     \A j \in PrefixMatches(keys) : i <= j]]
    ELSE <<>>

\* C25: the value of a slot is resolved in order, first match wins: the
\* exactly named column, else the column named by the number, else the
\* first column in header order whose name starts with the slot's prefix;
\* a later match never overrides an earlier one, and no match gives the
\* empty value; so it is for the client's and for the server's loader.
C25_FirstMatchWins ==
    slot.fn # "none" => slot.value = SlotValue(slot.keys, slot.row)

\* both callers have finished an audited edit of the same cell and have
\* not returned yet
BothEdited ==
    \A c \in Clients :
        /\ Succeeded(c, "updateRubric")
        /\ calls[c].persisted
        /\ Len(calls[c].appended) = 1

\* C26 as stated: when two edits of a field interleave, both complete,
\* the later write wins, and the only anomaly is an entry whose old value
\* is not the value that was overwritten: if every entry shows the value
\* its write overwrote, the trail is as after edits one at a time, its
\* newest entry showing the value the field now has.
C26_OnlyOldValueAnomaly ==
    ( /\ BothEdited
      /\ \A c \in Clients :
            calls[c].appended[1].old_value = OrEmpty(calls[c].before) )
    => change_history[Len(change_history)].new_value
           = rubric_data[calls["c1"].id][DbField(calls["c1"].field)]

\* C26, amended: when two edits of a field interleave, every write that
\* is applied sets the field to its call's new value whatever the other
\* call did, so the write applied last decides the final value; every
\* entry appended shows its call's new value and, as old value, the value
\* that call read, which need not be the value that was overwritten; the
\* entries are appended in the order of the inserts, which need not be the
\* order of the writes.
C26_LaterWriteWins ==
    [][ \A c \in Clients :
          /\ ( /\ calls[c].pc = "upd_write"
               /\ calls'[c].pc # "upd_write"
               /\ calls'[c].persisted )
             => rubric_data'[calls[c].id][DbField(calls[c].field)]
                    = calls[c].value
          /\ ( /\ calls[c].pc = "upd_audit"
               /\ calls'[c].pc # "upd_audit"
               /\ ~calls'[c].auditFailed )
             => /\ Len(change_history') = Len(change_history) + 1
                /\ change_history'[Len(change_history')].new_value
                       = calls[c].value
                /\ change_history'[Len(change_history')].old_value
                       = OrEmpty(calls[c].current) ]_vars

\* the two edits interleaved: both are done, one entry shows an old value
\* that its write did not overwrite, and the entry appended last is that
\* of the write applied first
C26_Witness ==
    /\ BothEdited
    /\ calls["c1"].value # calls["c2"].value
    /\ \E c \in Clients :
          calls[c].appended[1].old_value # OrEmpty(calls[c].before)
    /\ \E c \in Clients :
          /\ rubric_data[calls[c].id][DbField(calls[c].field)] = calls[c].value
          /\ change_history[Len(change_history)].new_value # calls[c].value

\* C27: the segmenter, applied by a diff of two or more texts to each of
\* them, returns, in the order of the text, only fragments that are not
\* empty and carry no blank at either end, each one but the last ending
\* with its '.', '!' or '?'; the empty text gives no fragment.
C27_FragmentsTrimmed ==
    (diffFn # "none" /\ Len(texts) >= 2) =>
        \A i \in DOMAIN texts :
            LET fragments == splitSentences(texts[i]) IN
            /\ texts[i] = <<>> => fragments = <<>>
            /\ \A k \in DOMAIN fragments :
                  /\ fragments[k] # <<>>
                  /\ trim(fragments[k]) = fragments[k]
                  /\ k < Len(fragments)
                        => isTerminator(fragments[k][Len(fragments[k])])

\* the entries of one field of one row, in the order they were appended
RECURSIVE FieldEntries(_, _, _)
FieldEntries(h, id, col) ==
    IF h = <<>> THEN <<>>
    ELSE IF Head(h).rubric_id = id /\ Head(h).field = col
         THEN <<Head(h)>> \o FieldEntries(Tail(h), id, col)
         ELSE FieldEntries(Tail(h), id, col)

\* no call is under way
Quiescent == \A c \in Clients : calls[c].pc \in {"idle", "done"}

\* C28: with the edits and reverts of a field run one at a time, the
\* audit entries of the field form a chain in append order, each entry's
\* old value being the new value of the entry before it, and the newest
\* entry's new value is the value the field holds, after any sequence of
\* edits and reverts.
C28_AuditChain ==
    Quiescent =>
        \A id \in DOMAIN rubric_data : \A col \in Columns :
            LET entries == FieldEntries(change_history, id, col) IN
            /\ \A k \in 2..Len(entries) :
                  entries[k].old_value = entries[k - 1].new_value
            /\ entries # <<>> =>
                  entries[Len(entries)].new_value = OrEmpty(rubric_data[id][col])


\* the cell of a record in memory; Undefined where there is none
CellOf(items, id, field) ==
    IF id \in DOMAIN items /\ field \in DOMAIN items[id]
    THEN items[id][field]
    ELSE Undefined

\* C29: once updateCell has returned with an error after a failed write, the
\* cell it edited holds in memory what the store holds (the optimistic value
\* is not left in the view); without the API updateCell throws and leaves
\* every cell in memory as it was
C29_OptimisticRollback ==
    app.pc = "returned" /\ app.thrown =>
        IF app.useApi
        THEN CellOf(app.rubricData, app.id, app.field) =
                 CellOf(fetchRubrics(rubric_data), app.id, app.field)
        ELSE app.rubricData = app.before


\* the distinct (stage, competency) pairs of some rows
Pairs(rows) == {<<rows[i].stage, rows[i].competency>> : i \in DOMAIN rows}

\* C30: two different (stage, competency) pairs are never taken for one:
\* createRole without copyFrom inserts exactly one row per distinct pair of
\* the discipline's rows, and a questions map holds one entry per distinct
\* pair of the rows it is built from, also when a label contains '_'
C30_CompositeKeyInjective ==
    /\ keyed.fn = "createRole" /\ ~Truthy(keyed.copyFrom) =>
           /\ Len(keyed.out) = Cardinality(Pairs(keyed.rows))
           /\ Pairs(keyed.out) = Pairs(keyed.rows)
    /\ keyed.fn = "fetchQuestions" =>
           Cardinality(DOMAIN keyed.out) = Cardinality(Pairs(keyed.rows))
    /\ keyed.fn = "loadQuestions" =>
           Cardinality(DOMAIN keyed.out) =
               Cardinality(Pairs(loadQuestions_kept(keyed.rows)))

====
